---------------------------- MODULE Spec2Model ----------------------------
(***************************************************************************)
(* State-machine model of the glfw-spike OpenGL demo programs:             *)
(*   src/unnamed/part_000  triangle fan, vertex buffer built before clear  *)
(*   src/src/main.cc       triangle fan, vertex buffer built after use     *)
(*   src/unnamed/part_001  two-attribute triangle, shaders read from files *)
(* Every statement of main, initialize_main_shaders, create_shader,        *)
(* create_shader_program, render_scene and initialize_vertex_buffer that   *)
(* touches the GL context is one step; pc is the statement about to run.   *)
(* The GL context (shader, program and buffer objects, current program,    *)
(* array-buffer binding, vertex attribute arrays) is explicit state, and   *)
(* each gl* operator gives the effect the OpenGL 3.3 specification defines *)
(* for that call, including its error cases (which leave state unchanged). *)
(* Object creation (glCreateShader, glCreateProgram, glGenBuffers) is      *)
(* modelled in a context that can still allocate names.                    *)
(***************************************************************************)
EXTENDS Integers, Sequences, FiniteSets, TLC

\* ------------------------------------------------------------------ bounds

\* frames the main loop may render before the model stops exploring
MaxFrames == 3
\* create_shader_program on any input: shader names 1..MaxShaders may exist
MaxShaders == 2
\* create_shader_program on any input: longest shaderList
MaxList == 3

\* ------------------------------------------------------------- the builds

Variants == {"part_000", "main", "part_001"}

VertexShaderString == "VertexShaderString"
FragmentShaderString == "FragmentShaderString"
VertexShaderFilename == "shaders/vertex/multiinput.glsl"
FragmentShaderFilename == "shaders/fragment/multiinput.glsl"

ShaderTypes == {"GL_VERTEX_SHADER", "GL_FRAGMENT_SHADER"}

\* vertexPositions of the fan builds, one tuple per (x, y, z, w), in 1/1000
vertexPositions ==
    << <<0, 500, 0, 1000>>,
       <<0, 0, 0, 1000>>,
       <<500, 0, 0, 1000>>,
       <<0, -500, 0, 1000>>,
       <<-500, 0, 0, 1000>> >>

\* vertexData of the two-attribute build: three positions, then three colors
vertexData ==
    << <<0, 500, 0, 1000>>,
       <<500, -366, 0, 1000>>,
       <<-500, -366, 0, 1000>>,
       <<1000, 0, 0, 1000>>,
       <<0, 1000, 0, 1000>>,
       <<0, 0, 1000, 1000>> >>

\* sizeof of an array of 4-float rows, in bytes (sizeof(float) = 4)
SizeofRows(rows) == Len(rows) * 4 * 4

VARIABLES
    variant,              \* which of the three builds runs
    fileOpens,            \* environment: does std::ifstream open the file
    driverCompiles,       \* environment: the GLSL compiler's verdict per stage
    driverLinks,          \* environment: the linker's verdict on compiled stages
    pc,                   \* statement about to execute
    stack,                \* return labels of the active create_* calls
    shaderObj,            \* GL shader objects by name
    programObj,           \* GL program objects by name
    bufferObj,            \* GL buffer objects by name
    currentProgram,       \* GL_CURRENT_PROGRAM
    arrayBuffer,          \* GL_ARRAY_BUFFER binding
    attribEnabled,        \* enabled generic vertex attribute indices
    attribPointer,        \* per index: size, byte offset, source buffer
    nextName,             \* next unused shader/program name
    nextBuffer,           \* next unused buffer name
    mainShader,           \* main: GLuint mainShader
    shouldClose,          \* the window's should-close flag
    frames,               \* render_scene calls that have returned
    iterations,           \* passes of the main loop body that have completed
    window,               \* the GLFW window: "none", "open" or "destroyed"
    shaderList,           \* initialize_main_shaders: std::vector<GLuint>
    ims_program,          \* initialize_main_shaders: GLuint program
    program,              \* create_shader_program: GLuint program
    iLoop,                \* position of the attach, detach and for_each loops
    eShaderType,          \* create_shader: parameter
    strShaderFile,        \* create_shader: parameter
    shader,               \* create_shader: GLuint shader
    shaderProgram,        \* render_scene: parameter
    positionBufferObject, \* render_scene: GLuint positionBufferObject
    bufferObject,         \* initialize_vertex_buffer: GLuint bufferObject
    bindingBefore,        \* GL_ARRAY_BUFFER binding when initialize_vertex_buffer was entered
    cerr,                 \* diagnostics written to standard error
    trace,                \* GL calls in order: of the build, then of the current frame
    draws,                \* glDrawArrays calls of the current render_scene call
    deleteCalls           \* glDeleteShader calls issued, per name

env == <<variant, fileOpens, driverCompiles, driverLinks>>
gl == <<shaderObj, programObj, bufferObj, currentProgram, arrayBuffer,
        attribEnabled, attribPointer, nextName, nextBuffer>>
mainLocals == <<mainShader, shouldClose, frames, iterations, window>>
shaderLocals == <<shaderList, ims_program, program, iLoop, eShaderType, strShaderFile, shader>>
renderLocals == <<shaderProgram, positionBufferObject, bufferObject,
                  bindingBefore>>
obs == <<cerr, trace, draws, deleteCalls>>
vars == <<env, pc, stack, gl, mainLocals, shaderLocals, renderLocals, obs>>

\* ------------------------------------------------------- GL context effects

\* the info log a driver leaves on an object whose compile or link failed
DriverLog == "driver log"

Restrict(f, S) == [x \in S |-> f[x]]

\* the Init value of every vertex attribute array (size 4, offset 0, no buffer)
DefaultPointer == [size |-> 4, offset |-> 0, buffer |-> 0]

\* glCreateShader(type): a fresh, empty, uncompiled shader object
glCreateShader(objs, name, type) ==
    objs @@ (name :> [type |-> type, source |-> "", compiled |-> FALSE,
                      infoLog |-> "", deleteFlag |-> FALSE])

\* glShaderSource(shader, 1, &text, NULL): replaces the source strings
glShaderSource(objs, s, text) ==
    IF s \in DOMAIN objs THEN [objs EXCEPT ![s].source = text] ELSE objs

\* glCompileShader(shader): status and info log are the compiler's
glCompileShader(objs, s) ==
    IF s \in DOMAIN objs
    THEN [objs EXCEPT ![s].compiled = driverCompiles[objs[s].type],
                      ![s].infoLog = IF driverCompiles[objs[s].type]
                                     THEN "" ELSE DriverLog]
    ELSE objs

\* glCreateProgram(): a fresh program with nothing attached, not linked
glCreateProgram(progs, name) ==
    progs @@ (name :> [attached |-> {}, linked |-> FALSE, infoLog |-> ""])

\* glAttachShader(program, shader): INVALID_VALUE for a name that is no
\* object, INVALID_OPERATION when already attached; both change nothing
glAttachShader(progs, p, s) ==
    IF p \in DOMAIN progs /\ s \in DOMAIN shaderObj /\ s \notin progs[p].attached
    THEN [progs EXCEPT ![p].attached = @ \cup {s}]
    ELSE progs

\* the linker's result: any attached shader that is not successfully
\* compiled fails the link; otherwise the driver's linker decides
LinkResult(progs, p) ==
    /\ \A s \in progs[p].attached : shaderObj[s].compiled
    /\ driverLinks

\* glLinkProgram(program)
glLinkProgram(progs, p) ==
    IF p \in DOMAIN progs
    THEN [progs EXCEPT ![p].linked = LinkResult(progs, p),
                       ![p].infoLog = IF LinkResult(progs, p) THEN "" ELSE DriverLog]
    ELSE progs

\* glDetachShader(program, shader) on the program objects: INVALID_OPERATION
\* (no change) when the shader is not attached; the link status is kept
glDetachShader(progs, p, s) ==
    IF p \in DOMAIN progs /\ s \in progs[p].attached
    THEN [progs EXCEPT ![p].attached = @ \ {s}]
    ELSE progs

\* shader objects attached to at least one program
AttachedAnywhere(progs) == UNION {progs[p].attached : p \in DOMAIN progs}

\* glDetachShader on the shader objects: a shader flagged for deletion is
\* freed once it is attached to no program
glDetachShader_shaders(objs, progs, p, s) ==
    IF /\ p \in DOMAIN progs
       /\ s \in progs[p].attached
       /\ objs[s].deleteFlag
       /\ s \notin AttachedAnywhere(glDetachShader(progs, p, s))
    THEN Restrict(objs, DOMAIN objs \ {s})
    ELSE objs

\* glDeleteShader(shader): 0 is ignored, a name that is no shader object is
\* INVALID_VALUE; an attached shader is only flagged, any other is freed
glDeleteShader(objs, progs, s) ==
    IF s \notin DOMAIN objs THEN objs
    ELSE IF s \in AttachedAnywhere(progs)
         THEN [objs EXCEPT ![s].deleteFlag = TRUE]
         ELSE Restrict(objs, DOMAIN objs \ {s})

\* glUseProgram(program): 0 means no program; a program that is not
\* successfully linked is INVALID_OPERATION and leaves the current one
glUseProgram(p) ==
    IF p = 0 THEN 0
    ELSE IF p \in DOMAIN programObj /\ programObj[p].linked THEN p
    ELSE currentProgram

\* one GL call appended to the call record
Log(op, a, b) == Append(trace, <<op, a, b>>)

\* ------------------------------------------------------- shader_utils.cc

FileContents(filename) == "contents of " \o filename

\* load_shader_from_file: the file's bytes, or "" when it cannot be opened
load_shader_from_file(filename) ==
    IF fileOpens[filename] THEN FileContents(filename) ELSE ""

\* what load_shader_from_file writes to std::cerr
load_shader_from_file_cerr(filename) ==
    IF fileOpens[filename] THEN <<>>
    ELSE << [kind |-> "Could not open", what |-> filename, log |-> ""] >>

\* --------------------------------------------------------- create_shader

\* mutant of ims_vertex: a stage whose file gave no text is skipped
ims_vertex_skipsEmpty ==
    /\ pc = "ims_vertex"
    /\ eShaderType' = "GL_VERTEX_SHADER"
    /\ strShaderFile' = IF variant = "part_001"
                        THEN load_shader_from_file(VertexShaderFilename)
                        ELSE VertexShaderString
    /\ cerr' = IF variant = "part_001"
               THEN cerr \o load_shader_from_file_cerr(VertexShaderFilename)
               ELSE cerr
    /\ shaderList' = <<>>
    /\ stack' = IF strShaderFile' = "" THEN stack ELSE <<"ims_fragment">> \o stack
    /\ pc' = IF strShaderFile' = "" THEN "ims_fragment" ELSE "cs_glCreateShader"
    /\ UNCHANGED <<env, gl, mainLocals, ims_program, program, iLoop, shader,
                   renderLocals, trace, draws, deleteCalls>>

\* initialize_main_shaders: first push_back, the call of create_shader
ims_vertex ==
    /\ pc = "ims_vertex"
    /\ eShaderType' = "GL_VERTEX_SHADER"
    /\ strShaderFile' = IF variant = "part_001"
                        THEN load_shader_from_file(VertexShaderFilename)
                        ELSE VertexShaderString
    /\ cerr' = IF variant = "part_001"
               THEN cerr \o load_shader_from_file_cerr(VertexShaderFilename)
               ELSE cerr
    /\ shaderList' = <<>>
    /\ stack' = <<"ims_fragment">> \o stack
    /\ pc' = "cs_glCreateShader"
    /\ UNCHANGED <<env, gl, mainLocals, ims_program, program, iLoop, shader,
                   renderLocals, trace, draws, deleteCalls>>

\* initialize_main_shaders: second push_back, the call of create_shader
ims_fragment ==
    /\ pc = "ims_fragment"
    /\ eShaderType' = "GL_FRAGMENT_SHADER"
    /\ strShaderFile' = IF variant = "part_001"
                        THEN load_shader_from_file(FragmentShaderFilename)
                        ELSE FragmentShaderString
    /\ cerr' = IF variant = "part_001"
               THEN cerr \o load_shader_from_file_cerr(FragmentShaderFilename)
               ELSE cerr
    /\ stack' = <<"ims_link">> \o stack
    /\ pc' = "cs_glCreateShader"
    /\ UNCHANGED <<env, gl, mainLocals, shaderList, ims_program, program, iLoop,
                   shader, renderLocals, trace, draws, deleteCalls>>

cs_glCreateShader ==
    /\ pc = "cs_glCreateShader"
    /\ shader' = nextName
    /\ shaderObj' = glCreateShader(shaderObj, nextName, eShaderType)
    /\ nextName' = nextName + 1
    /\ deleteCalls' = deleteCalls @@ (nextName :> 0)
    /\ trace' = Log("glCreateShader", nextName, 0)
    /\ pc' = "cs_glShaderSource"
    /\ UNCHANGED <<env, stack, programObj, bufferObj, currentProgram, arrayBuffer,
                   attribEnabled, attribPointer, nextBuffer, mainLocals,
                   shaderList, ims_program, program, iLoop, eShaderType,
                   strShaderFile, renderLocals, cerr, draws>>

cs_glShaderSource ==
    /\ pc = "cs_glShaderSource"
    /\ shaderObj' = glShaderSource(shaderObj, shader, strShaderFile)
    /\ trace' = Log("glShaderSource", shader, 0)
    /\ pc' = "cs_glCompileShader"
    /\ UNCHANGED <<env, stack, programObj, bufferObj, currentProgram, arrayBuffer,
                   attribEnabled, attribPointer, nextName, nextBuffer, mainLocals,
                   shaderLocals, renderLocals, cerr, draws, deleteCalls>>

cs_glCompileShader ==
    /\ pc = "cs_glCompileShader"
    /\ shaderObj' = glCompileShader(shaderObj, shader)
    /\ trace' = Log("glCompileShader", shader, 0)
    /\ pc' = "cs_status"
    /\ UNCHANGED <<env, stack, programObj, bufferObj, currentProgram, arrayBuffer,
                   attribEnabled, attribPointer, nextName, nextBuffer, mainLocals,
                   shaderLocals, renderLocals, cerr, draws, deleteCalls>>

\* the switch over eShaderType that names the stage in the diagnostic
strShaderType(type) ==
    CASE type = "GL_VERTEX_SHADER" -> "vertex"
      [] type = "GL_GEOMETRY_SHADER" -> "geometry"
      [] type = "GL_FRAGMENT_SHADER" -> "fragment"
      [] OTHER -> "NULL"

\* mutant of cs_status: the failure branch gives up the handle (returns 0)
cs_status_zeroOnFailure ==
    /\ pc = "cs_status"
    /\ cerr' = IF shaderObj[shader].compiled
               THEN cerr
               ELSE Append(cerr, [kind |-> "Compile failure",
                                  what |-> strShaderType(eShaderType),
                                  log |-> shaderObj[shader].infoLog])
    /\ shader' = IF shaderObj[shader].compiled THEN shader ELSE 0
    /\ pc' = "cs_return"
    /\ UNCHANGED <<env, stack, gl, mainLocals, shaderList, ims_program, program,
                   iLoop, eShaderType, strShaderFile, renderLocals, trace, draws,
                   deleteCalls>>

\* glGetShaderiv(GL_COMPILE_STATUS) and the failure branch: a diagnostic only
cs_status ==
    /\ pc = "cs_status"
    /\ cerr' = IF shaderObj[shader].compiled
               THEN cerr
               ELSE Append(cerr, [kind |-> "Compile failure",
                                  what |-> strShaderType(eShaderType),
                                  log |-> shaderObj[shader].infoLog])
    /\ pc' = "cs_return"
    /\ UNCHANGED <<env, stack, gl, mainLocals, shaderLocals, renderLocals,
                   trace, draws, deleteCalls>>

\* return shader; the caller pushes the value onto shaderList
cs_return ==
    /\ pc = "cs_return"
    /\ shaderList' = Append(shaderList, shader)
    /\ pc' = Head(stack)
    /\ stack' = Tail(stack)
    /\ UNCHANGED <<env, gl, mainLocals, ims_program, program, iLoop, eShaderType,
                   strShaderFile, shader, renderLocals, obs>>

\* ------------------------------------------------- create_shader_program

\* initialize_main_shaders: program = create_shader_program(shaderList)
ims_link ==
    /\ pc = "ims_link"
    /\ stack' = <<"ims_delete">> \o stack
    /\ pc' = "csp_glCreateProgram"
    /\ UNCHANGED <<env, gl, mainLocals, shaderLocals, renderLocals, obs>>

csp_glCreateProgram ==
    /\ pc = "csp_glCreateProgram"
    /\ program' = nextName
    /\ programObj' = glCreateProgram(programObj, nextName)
    /\ nextName' = nextName + 1
    /\ iLoop' = 1
    /\ trace' = Log("glCreateProgram", nextName, 0)
    /\ pc' = "csp_attach"
    /\ UNCHANGED <<env, stack, shaderObj, bufferObj, currentProgram, arrayBuffer,
                   attribEnabled, attribPointer, nextBuffer, mainLocals,
                   shaderList, ims_program, eShaderType, strShaderFile, shader,
                   renderLocals, cerr, draws, deleteCalls>>

\* one iteration of the attach loop
csp_glAttachShader ==
    /\ pc = "csp_attach"
    /\ iLoop <= Len(shaderList)
    /\ programObj' = glAttachShader(programObj, program, shaderList[iLoop])
    /\ trace' = Log("glAttachShader", program, shaderList[iLoop])
    /\ iLoop' = iLoop + 1
    /\ UNCHANGED <<env, pc, stack, shaderObj, bufferObj, currentProgram,
                   arrayBuffer, attribEnabled, attribPointer, nextName,
                   nextBuffer, mainLocals, shaderList, ims_program, program,
                   eShaderType, strShaderFile, shader, renderLocals, cerr, draws,
                   deleteCalls>>

\* mutant of csp_glLinkProgram: the glLinkProgram call is missing
csp_glLinkProgram_missing ==
    /\ pc = "csp_attach"
    /\ iLoop > Len(shaderList)
    /\ pc' = "csp_status"
    /\ UNCHANGED <<env, stack, gl, mainLocals, shaderLocals, renderLocals, obs>>

\* the attach loop is over: glLinkProgram(program)
csp_glLinkProgram ==
    /\ pc = "csp_attach"
    /\ iLoop > Len(shaderList)
    /\ programObj' = glLinkProgram(programObj, program)
    /\ trace' = Log("glLinkProgram", program, 0)
    /\ pc' = "csp_status"
    /\ UNCHANGED <<env, stack, shaderObj, bufferObj, currentProgram, arrayBuffer,
                   attribEnabled, attribPointer, nextName, nextBuffer, mainLocals,
                   shaderLocals, renderLocals, cerr, draws, deleteCalls>>

\* mutant of csp_status: the failure branch returns early, skipping the
\* detach loop
csp_status_returnsOnFailure ==
    /\ pc = "csp_status"
    /\ cerr' = IF programObj[program].linked
               THEN cerr
               ELSE Append(cerr, [kind |-> "Linker failure", what |-> "",
                                  log |-> programObj[program].infoLog])
    /\ iLoop' = IF programObj[program].linked THEN 1 ELSE Len(shaderList) + 1
    /\ pc' = "csp_detach"
    /\ UNCHANGED <<env, stack, gl, mainLocals, shaderList, ims_program, program,
                   eShaderType, strShaderFile, shader, renderLocals, trace, draws,
                   deleteCalls>>

\* glGetProgramiv(GL_LINK_STATUS) and the failure branch: a diagnostic only
csp_status ==
    /\ pc = "csp_status"
    /\ cerr' = IF programObj[program].linked
               THEN cerr
               ELSE Append(cerr, [kind |-> "Linker failure", what |-> "",
                                  log |-> programObj[program].infoLog])
    /\ iLoop' = 1
    /\ pc' = "csp_detach"
    /\ UNCHANGED <<env, stack, gl, mainLocals, shaderList, ims_program, program,
                   eShaderType, strShaderFile, shader, renderLocals, trace, draws,
                   deleteCalls>>

\* mutant of csp_glDetachShader: the loop runs without detaching
csp_glDetachShader_missing ==
    /\ pc = "csp_detach"
    /\ iLoop <= Len(shaderList)
    /\ iLoop' = iLoop + 1
    /\ UNCHANGED <<env, pc, stack, gl, mainLocals, shaderList, ims_program,
                   program, eShaderType, strShaderFile, shader, renderLocals,
                   obs>>

\* one iteration of the detach loop
csp_glDetachShader ==
    /\ pc = "csp_detach"
    /\ iLoop <= Len(shaderList)
    /\ programObj' = glDetachShader(programObj, program, shaderList[iLoop])
    /\ shaderObj' = glDetachShader_shaders(shaderObj, programObj, program,
                                           shaderList[iLoop])
    /\ trace' = Log("glDetachShader", program, shaderList[iLoop])
    /\ iLoop' = iLoop + 1
    /\ UNCHANGED <<env, pc, stack, bufferObj, currentProgram, arrayBuffer,
                   attribEnabled, attribPointer, nextName, nextBuffer, mainLocals,
                   shaderList, ims_program, program, eShaderType, strShaderFile,
                   shader, renderLocals, cerr, draws, deleteCalls>>

\* return program, to the caller's assignment
csp_return ==
    /\ pc = "csp_detach"
    /\ iLoop > Len(shaderList)
    /\ ims_program' = program
    /\ iLoop' = 1
    /\ pc' = IF stack = <<>> THEN "done" ELSE Head(stack)
    /\ stack' = IF stack = <<>> THEN stack ELSE Tail(stack)
    /\ UNCHANGED <<env, gl, mainLocals, shaderList, program, eShaderType,
                   strShaderFile, shader, renderLocals, obs>>

\* ----------------------------------------------- initialize_main_shaders

\* mutant of ims_glDeleteShader: every iteration deletes the first element
ims_glDeleteShader_first ==
    /\ pc = "ims_delete"
    /\ iLoop <= Len(shaderList)
    /\ shaderObj' = glDeleteShader(shaderObj, programObj, shaderList[1])
    /\ deleteCalls' = [deleteCalls EXCEPT ![shaderList[1]] = @ + 1]
    /\ trace' = Log("glDeleteShader", shaderList[1], 0)
    /\ iLoop' = iLoop + 1
    /\ UNCHANGED <<env, pc, stack, programObj, bufferObj, currentProgram,
                   arrayBuffer, attribEnabled, attribPointer, nextName,
                   nextBuffer, mainLocals, shaderList, ims_program, program,
                   eShaderType, strShaderFile, shader, renderLocals, cerr, draws>>

\* std::for_each(shaderList.begin(), shaderList.end(), glDeleteShader), one call
ims_glDeleteShader ==
    /\ pc = "ims_delete"
    /\ iLoop <= Len(shaderList)
    /\ shaderObj' = glDeleteShader(shaderObj, programObj, shaderList[iLoop])
    /\ deleteCalls' = [deleteCalls EXCEPT ![shaderList[iLoop]] = @ + 1]
    /\ trace' = Log("glDeleteShader", shaderList[iLoop], 0)
    /\ iLoop' = iLoop + 1
    /\ UNCHANGED <<env, pc, stack, programObj, bufferObj, currentProgram,
                   arrayBuffer, attribEnabled, attribPointer, nextName,
                   nextBuffer, mainLocals, shaderList, ims_program, program,
                   eShaderType, strShaderFile, shader, renderLocals, cerr, draws>>

\* mutant of ims_return: the cleanup also deletes the program it returns
ims_return_deletesProgram ==
    /\ pc = "ims_delete"
    /\ iLoop > Len(shaderList)
    /\ mainShader' = ims_program
    /\ programObj' = Restrict(programObj, DOMAIN programObj \ {ims_program})
    /\ pc' = "main_while"
    /\ UNCHANGED <<env, stack, shaderObj, bufferObj, currentProgram, arrayBuffer,
                   attribEnabled, attribPointer, nextName, nextBuffer,
                   shouldClose, frames, iterations, window, shaderLocals, renderLocals, obs>>

\* return program; main stores it in mainShader
ims_return ==
    /\ pc = "ims_delete"
    /\ iLoop > Len(shaderList)
    /\ mainShader' = ims_program
    /\ pc' = "main_while"
    /\ UNCHANGED <<env, stack, gl, shouldClose, frames, iterations, window, shaderLocals,
                   renderLocals, obs>>

\* ------------------------------------------------ initialize_vertex_buffer

\* the array initialize_vertex_buffer uploads
VertexArray(v) == IF v = "part_001" THEN vertexData ELSE vertexPositions

\* the statements of render_scene in source order; "rs_return" ends the call
RenderSceneBody(v) ==
    CASE v = "part_000" ->
           <<"rs_initialize_vertex_buffer", "rs_glClear", "rs_glUseProgram",
             "rs_glBindBuffer", "rs_glEnableVertexAttribArray_0",
             "rs_glVertexAttribPointer_0", "rs_glDrawArrays",
             "rs_glDisableVertexAttribArray_0", "rs_glUseProgram_0", "rs_return">>
      [] v = "main" ->
           <<"rs_glClear", "rs_glUseProgram", "rs_initialize_vertex_buffer",
             "rs_glBindBuffer", "rs_glEnableVertexAttribArray_0",
             "rs_glVertexAttribPointer_0", "rs_glDrawArrays",
             "rs_glDisableVertexAttribArray_0", "rs_glUseProgram_0", "rs_return">>
      [] v = "part_001" ->
           <<"rs_glClear", "rs_glUseProgram", "rs_initialize_vertex_buffer",
             "rs_glBindBuffer", "rs_glEnableVertexAttribArray_0",
             "rs_glEnableVertexAttribArray_1", "rs_glVertexAttribPointer_0",
             "rs_glVertexAttribPointer_1", "rs_glDrawArrays",
             "rs_glDisableVertexAttribArray_0", "rs_glUseProgram_0", "rs_return">>

\* the statement of render_scene that follows statement label
After(label) ==
    LET body == RenderSceneBody(variant)
        i == CHOOSE k \in 1..Len(body) : body[k] = label
    IN body[i + 1]

\* glBindBuffer(GL_ARRAY_BUFFER, b): the first bind of a generated name
\* creates the buffer object, with no data store
glBindBuffer(objs, b) ==
    IF b = 0 \/ b \in DOMAIN objs THEN objs
    ELSE objs @@ (b :> [size |-> 0, data |-> <<>>])

\* glBufferData(GL_ARRAY_BUFFER, sizeof(rows), rows, GL_STATIC_DRAW):
\* INVALID_OPERATION (no change) when no buffer is bound
glBufferData(objs, bound, rows) ==
    IF bound \in DOMAIN objs
    THEN [objs EXCEPT ![bound] = [size |-> SizeofRows(rows), data |-> rows]]
    ELSE objs

\* render_scene calls initialize_vertex_buffer
rs_initialize_vertex_buffer ==
    /\ pc = "rs_initialize_vertex_buffer"
    /\ bindingBefore' = arrayBuffer
    /\ pc' = "ivb_glGenBuffers"
    /\ UNCHANGED <<env, stack, gl, mainLocals, shaderLocals, shaderProgram,
                   positionBufferObject, bufferObject, obs>>

\* mutant of ivb_glGenBuffers: the buffer of the first frame is kept and
\* reused by later frames
ivb_glGenBuffers_reuse ==
    /\ pc = "ivb_glGenBuffers"
    /\ bufferObject' = IF nextBuffer > 1 THEN 1 ELSE nextBuffer
    /\ positionBufferObject' = IF variant = "part_000" THEN bufferObject'
                               ELSE positionBufferObject
    /\ nextBuffer' = IF nextBuffer > 1 THEN nextBuffer ELSE nextBuffer + 1
    /\ trace' = Log("glGenBuffers", bufferObject', 0)
    /\ pc' = "ivb_glBindBuffer"
    /\ UNCHANGED <<env, stack, shaderObj, programObj, bufferObj, currentProgram,
                   arrayBuffer, attribEnabled, attribPointer, nextName,
                   mainLocals, shaderLocals, shaderProgram, bindingBefore, cerr,
                   draws, deleteCalls>>

\* glGenBuffers(1, &bufferObject); in part_000 bufferObject is a reference
\* to render_scene's positionBufferObject
ivb_glGenBuffers ==
    /\ pc = "ivb_glGenBuffers"
    /\ bufferObject' = nextBuffer
    /\ positionBufferObject' = IF variant = "part_000" THEN nextBuffer
                               ELSE positionBufferObject
    /\ nextBuffer' = nextBuffer + 1
    /\ trace' = Log("glGenBuffers", nextBuffer, 0)
    /\ pc' = "ivb_glBindBuffer"
    /\ UNCHANGED <<env, stack, shaderObj, programObj, bufferObj, currentProgram,
                   arrayBuffer, attribEnabled, attribPointer, nextName,
                   mainLocals, shaderLocals, shaderProgram, bindingBefore, cerr,
                   draws, deleteCalls>>

ivb_glBindBuffer ==
    /\ pc = "ivb_glBindBuffer"
    /\ bufferObj' = glBindBuffer(bufferObj, bufferObject)
    /\ arrayBuffer' = bufferObject
    /\ trace' = Log("glBindBuffer", bufferObject, 0)
    /\ pc' = "ivb_glBufferData"
    /\ UNCHANGED <<env, stack, shaderObj, programObj, currentProgram,
                   attribEnabled, attribPointer, nextName, nextBuffer,
                   mainLocals, shaderLocals, renderLocals, cerr, draws,
                   deleteCalls>>

ivb_glBufferData ==
    /\ pc = "ivb_glBufferData"
    /\ bufferObj' = glBufferData(bufferObj, arrayBuffer, VertexArray(variant))
    /\ trace' = Log("glBufferData", arrayBuffer, SizeofRows(VertexArray(variant)))
    /\ pc' = "ivb_glBindBuffer_0"
    /\ UNCHANGED <<env, stack, shaderObj, programObj, currentProgram, arrayBuffer,
                   attribEnabled, attribPointer, nextName, nextBuffer,
                   mainLocals, shaderLocals, renderLocals, cerr, draws,
                   deleteCalls>>

\* glBindBuffer(GL_ARRAY_BUFFER, 0)
ivb_glBindBuffer_0 ==
    /\ pc = "ivb_glBindBuffer_0"
    /\ arrayBuffer' = 0
    /\ trace' = Log("glBindBuffer", 0, 0)
    /\ pc' = "ivb_return"
    /\ UNCHANGED <<env, stack, shaderObj, programObj, bufferObj, currentProgram,
                   attribEnabled, attribPointer, nextName, nextBuffer,
                   mainLocals, shaderLocals, renderLocals, cerr, draws,
                   deleteCalls>>

\* return bufferObject; render_scene stores it in positionBufferObject
ivb_return ==
    /\ pc = "ivb_return"
    /\ positionBufferObject' = bufferObject
    /\ pc' = After("rs_initialize_vertex_buffer")
    /\ UNCHANGED <<env, stack, gl, mainLocals, shaderLocals, shaderProgram,
                   bufferObject, bindingBefore, obs>>

\* ------------------------------------------------------------ render_scene

\* mutant of DrawArraysArgs: the fan's vertex count kept for the triangle
DrawArraysArgs_fanCount(v) ==
    IF v = "part_001"
    THEN [mode |-> "GL_TRIANGLES", first |-> 0, count |-> 5]
    ELSE [mode |-> "GL_TRIANGLE_FAN", first |-> 0, count |-> 5]

\* mutant of DrawArraysArgs: the fan drawn as a triangle list
DrawArraysArgs_triangleList(v) ==
    IF v = "part_001"
    THEN [mode |-> "GL_TRIANGLES", first |-> 0, count |-> 3]
    ELSE [mode |-> "GL_TRIANGLES", first |-> 0, count |-> 5]

\* the arguments render_scene gives glDrawArrays
DrawArraysArgs(v) ==
    IF v = "part_001"
    THEN [mode |-> "GL_TRIANGLES", first |-> 0, count |-> 3]
    ELSE [mode |-> "GL_TRIANGLE_FAN", first |-> 0, count |-> 5]

\* mutant of AttribOffset: the color offset counts floats, not bytes
AttribOffset_inFloats(i) == IF i = 0 THEN 0 ELSE 4 * 3

\* the byte offset render_scene gives glVertexAttribPointer for index i:
\* 0 for the positions, sizeof(GLfloat) * 4 * 3 for the colors
AttribOffset(i) == IF i = 0 THEN 0 ELSE 4 * 4 * 3

\* glClearColor(0, 0, 0, 0); glClear(GL_COLOR_BUFFER_BIT)
rs_glClear ==
    /\ pc = "rs_glClear"
    /\ trace' = trace \o << <<"glClearColor", 0, 0>>, <<"glClear", 0, 0>> >>
    /\ pc' = After("rs_glClear")
    /\ UNCHANGED <<env, stack, gl, mainLocals, shaderLocals, renderLocals, cerr,
                   draws, deleteCalls>>

\* glUseProgram(shaderProgram)
rs_glUseProgram ==
    /\ pc = "rs_glUseProgram"
    /\ currentProgram' = glUseProgram(shaderProgram)
    /\ trace' = Log("glUseProgram", shaderProgram, 0)
    /\ pc' = After("rs_glUseProgram")
    /\ UNCHANGED <<env, stack, shaderObj, programObj, bufferObj, arrayBuffer,
                   attribEnabled, attribPointer, nextName, nextBuffer,
                   mainLocals, shaderLocals, renderLocals, cerr, draws,
                   deleteCalls>>

\* glBindBuffer(GL_ARRAY_BUFFER, positionBufferObject)
rs_glBindBuffer ==
    /\ pc = "rs_glBindBuffer"
    /\ bufferObj' = glBindBuffer(bufferObj, positionBufferObject)
    /\ arrayBuffer' = positionBufferObject
    /\ trace' = Log("glBindBuffer", positionBufferObject, 0)
    /\ pc' = After("rs_glBindBuffer")
    /\ UNCHANGED <<env, stack, shaderObj, programObj, currentProgram,
                   attribEnabled, attribPointer, nextName, nextBuffer,
                   mainLocals, shaderLocals, renderLocals, cerr, draws,
                   deleteCalls>>

\* glEnableVertexAttribArray(i) at statement label
rs_glEnableVertexAttribArray(label, i) ==
    /\ pc = label
    /\ attribEnabled' = attribEnabled \cup {i}
    /\ trace' = Log("glEnableVertexAttribArray", i, 0)
    /\ pc' = After(label)
    /\ UNCHANGED <<env, stack, shaderObj, programObj, bufferObj, currentProgram,
                   arrayBuffer, attribPointer, nextName, nextBuffer, mainLocals,
                   shaderLocals, renderLocals, cerr, draws, deleteCalls>>

rs_glEnableVertexAttribArray_0 ==
    rs_glEnableVertexAttribArray("rs_glEnableVertexAttribArray_0", 0)

\* part_001 only
rs_glEnableVertexAttribArray_1 ==
    rs_glEnableVertexAttribArray("rs_glEnableVertexAttribArray_1", 1)

\* glVertexAttribPointer(i, 4, GL_FLOAT, GL_FALSE, 0, offset) at statement
\* label: the array is sourced from the buffer bound to GL_ARRAY_BUFFER now
rs_glVertexAttribPointer(label, i) ==
    /\ pc = label
    /\ attribPointer' = [attribPointer EXCEPT ![i] =
           [size |-> 4, offset |-> AttribOffset(i), buffer |-> arrayBuffer]]
    /\ trace' = Log("glVertexAttribPointer", i, AttribOffset(i))
    /\ pc' = After(label)
    /\ UNCHANGED <<env, stack, shaderObj, programObj, bufferObj, currentProgram,
                   arrayBuffer, attribEnabled, nextName, nextBuffer, mainLocals,
                   shaderLocals, renderLocals, cerr, draws, deleteCalls>>

rs_glVertexAttribPointer_0 ==
    rs_glVertexAttribPointer("rs_glVertexAttribPointer_0", 0)

\* part_001 only
rs_glVertexAttribPointer_1 ==
    rs_glVertexAttribPointer("rs_glVertexAttribPointer_1", 1)

\* glDrawArrays(mode, first, count): recorded with the context state it reads
rs_glDrawArrays ==
    /\ pc = "rs_glDrawArrays"
    /\ draws' = Append(draws,
           [mode |-> DrawArraysArgs(variant).mode,
            first |-> DrawArraysArgs(variant).first,
            count |-> DrawArraysArgs(variant).count,
            program |-> currentProgram,
            enabled |-> attribEnabled,
            pointers |-> attribPointer,
            binding |-> arrayBuffer])
    /\ trace' = Log("glDrawArrays", DrawArraysArgs(variant).first,
                    DrawArraysArgs(variant).count)
    /\ pc' = After("rs_glDrawArrays")
    /\ UNCHANGED <<env, stack, gl, mainLocals, shaderLocals, renderLocals, cerr,
                   deleteCalls>>

\* glDisableVertexAttribArray(0)
rs_glDisableVertexAttribArray_0 ==
    /\ pc = "rs_glDisableVertexAttribArray_0"
    /\ attribEnabled' = attribEnabled \ {0}
    /\ trace' = Log("glDisableVertexAttribArray", 0, 0)
    /\ pc' = After("rs_glDisableVertexAttribArray_0")
    /\ UNCHANGED <<env, stack, shaderObj, programObj, bufferObj, currentProgram,
                   arrayBuffer, attribPointer, nextName, nextBuffer, mainLocals,
                   shaderLocals, renderLocals, cerr, draws, deleteCalls>>

\* glUseProgram(0)
rs_glUseProgram_0 ==
    /\ pc = "rs_glUseProgram_0"
    /\ currentProgram' = glUseProgram(0)
    /\ trace' = Log("glUseProgram", 0, 0)
    /\ pc' = After("rs_glUseProgram_0")
    /\ UNCHANGED <<env, stack, shaderObj, programObj, bufferObj, arrayBuffer,
                   attribEnabled, attribPointer, nextName, nextBuffer,
                   mainLocals, shaderLocals, renderLocals, cerr, draws,
                   deleteCalls>>

\* render_scene returns to the main loop
rs_return ==
    /\ pc = "rs_return"
    /\ frames' = frames + 1
    /\ pc' = "main_glfwSwapBuffers"
    /\ UNCHANGED <<env, stack, gl, mainShader, shouldClose, iterations, window, shaderLocals,
                   renderLocals, obs>>

\* -------------------------------------------------------------------- main

\* glfwInit(): on failure main calls exit(EXIT_FAILURE)
main_glfwInit ==
    /\ pc = "main_glfwInit"
    /\ \E ok \in BOOLEAN :
           pc' = IF ok THEN "main_glfwCreateWindow" ELSE "exit_failure"
    /\ UNCHANGED <<env, stack, gl, mainLocals, shaderLocals, renderLocals, obs>>

\* glfwCreateWindow, the callbacks and glfwMakeContextCurrent; without a
\* window main terminates; with one it calls initialize_main_shaders
main_glfwCreateWindow ==
    /\ pc = "main_glfwCreateWindow"
    /\ \E ok \in BOOLEAN :
           /\ window' = IF ok THEN "open" ELSE "none"
           /\ pc' = IF ok THEN "ims_vertex" ELSE "exit_failure"
    /\ UNCHANGED <<env, stack, gl, mainShader, shouldClose, frames, iterations, shaderLocals,
                   renderLocals, obs>>

\* mutant of main_while_render: the loop does not test the should-close flag
main_while_render_ignoresFlag ==
    /\ pc = "main_while"
    /\ frames < MaxFrames
    /\ shaderProgram' = mainShader
    /\ trace' = <<>>
    /\ draws' = <<>>
    /\ pc' = RenderSceneBody(variant)[1]
    /\ UNCHANGED <<env, stack, gl, mainLocals, shaderLocals, positionBufferObject,
                   bufferObject, bindingBefore, cerr, deleteCalls>>

\* while (!glfwWindowShouldClose(window)) render_scene(mainShader)
main_while_render ==
    /\ pc = "main_while"
    /\ ~shouldClose
    /\ frames < MaxFrames
    /\ shaderProgram' = mainShader
    /\ trace' = <<>>
    /\ draws' = <<>>
    /\ pc' = RenderSceneBody(variant)[1]
    /\ UNCHANGED <<env, stack, gl, mainLocals, shaderLocals, positionBufferObject,
                   bufferObject, bindingBefore, cerr, deleteCalls>>

\* the loop condition is false
main_while_exit ==
    /\ pc = "main_while"
    /\ shouldClose
    /\ pc' = "main_cleanup"
    /\ UNCHANGED <<env, stack, gl, mainLocals, shaderLocals, renderLocals, obs>>

main_glfwSwapBuffers ==
    /\ pc = "main_glfwSwapBuffers"
    /\ pc' = "main_glfwPollEvents"
    /\ UNCHANGED <<env, stack, gl, mainLocals, shaderLocals, renderLocals, obs>>

Keys == {"GLFW_KEY_ESCAPE", "GLFW_KEY_A"}
KeyActions == {"GLFW_PRESS", "GLFW_RELEASE"}

\* the events one glfwPollEvents call may deliver
Events == {<<"none", "", "">>, <<"close", "", "">>}
              \cup {<<"key", k, a>> : k \in Keys, a \in KeyActions}

\* key_callback: Escape pressed sets the should-close flag
key_callback(flag, key, action) ==
    IF key = "GLFW_KEY_ESCAPE" /\ action = "GLFW_PRESS" THEN TRUE ELSE flag

\* glfwPollEvents(): a close request sets the flag, a key event runs key_callback
main_glfwPollEvents ==
    /\ pc = "main_glfwPollEvents"
    /\ \E ev \in Events :
           shouldClose' = IF ev[1] = "close" THEN TRUE
                          ELSE IF ev[1] = "key"
                               THEN key_callback(shouldClose, ev[2], ev[3])
                               ELSE shouldClose
    /\ iterations' = iterations + 1
    /\ pc' = "main_while"
    /\ UNCHANGED <<env, stack, gl, mainShader, frames, window, shaderLocals,
                   renderLocals, obs>>

\* glfwDestroyWindow(window); glfwTerminate(); return 0
main_cleanup ==
    /\ pc = "main_cleanup"
    /\ window' = "destroyed"
    /\ pc' = "exit_success"
    /\ UNCHANGED <<env, stack, gl, mainShader, shouldClose, frames, iterations, shaderLocals,
                   renderLocals, obs>>

\* ------------------------------------------------------- the specification

Filenames == {VertexShaderFilename, FragmentShaderFilename}

EmptyMap == [x \in {} |-> x]

AttribIndices == {0, 1}

\* the GL context right after glfwMakeContextCurrent, and the locals
InitContext ==
    /\ programObj = EmptyMap
    /\ bufferObj = EmptyMap
    /\ currentProgram = 0
    /\ arrayBuffer = 0
    /\ attribEnabled = {}
    /\ attribPointer = [i \in AttribIndices |-> DefaultPointer]
    /\ nextBuffer = 1
    /\ mainShader = 0
    /\ shouldClose = FALSE
    /\ frames = 0
    /\ iterations = 0
    /\ bindingBefore = 0
    /\ ims_program = 0
    /\ program = 0
    /\ iLoop = 1
    /\ eShaderType = ""
    /\ strShaderFile = ""
    /\ shader = 0
    /\ shaderProgram = 0
    /\ positionBufferObject = 0
    /\ bufferObject = 0
    /\ cerr = <<>>
    /\ trace = <<>>
    /\ draws = <<>>

Init ==
    /\ variant \in Variants
    /\ fileOpens \in IF variant = "part_001" THEN [Filenames -> BOOLEAN]
                     ELSE {[f \in Filenames |-> TRUE]}
    /\ driverCompiles \in [ShaderTypes -> BOOLEAN]
    /\ driverLinks \in BOOLEAN
    /\ pc = "main_glfwInit"
    /\ stack = <<>>
    /\ window = "none"
    /\ shaderObj = EmptyMap
    /\ deleteCalls = EmptyMap
    /\ shaderList = <<>>
    /\ nextName = 1
    /\ InitContext

Next ==
    \/ main_glfwInit
    \/ main_glfwCreateWindow
    \/ ims_vertex
    \/ ims_fragment
    \/ cs_glCreateShader
    \/ cs_glShaderSource
    \/ cs_glCompileShader
    \/ cs_status
    \/ cs_return
    \/ ims_link
    \/ csp_glCreateProgram
    \/ csp_glAttachShader
    \/ csp_glLinkProgram
    \/ csp_status
    \/ csp_glDetachShader
    \/ csp_return
    \/ ims_glDeleteShader
    \/ ims_return
    \/ main_while_render
    \/ main_while_exit
    \/ rs_initialize_vertex_buffer
    \/ ivb_glGenBuffers
    \/ ivb_glBindBuffer
    \/ ivb_glBufferData
    \/ ivb_glBindBuffer_0
    \/ ivb_return
    \/ rs_glClear
    \/ rs_glUseProgram
    \/ rs_glBindBuffer
    \/ rs_glEnableVertexAttribArray_0
    \/ rs_glEnableVertexAttribArray_1
    \/ rs_glVertexAttribPointer_0
    \/ rs_glVertexAttribPointer_1
    \/ rs_glDrawArrays
    \/ rs_glDisableVertexAttribArray_0
    \/ rs_glUseProgram_0
    \/ rs_return
    \/ main_glfwSwapBuffers
    \/ main_glfwPollEvents
    \/ main_cleanup

Spec == Init /\ [][Next]_vars

\* the program keeps executing: every statement it reaches completes
SpecFair == Spec /\ WF_vars(Next)

\* ------------------------------------- create_shader_program on any input

\* shader objects that exist before the call: any subset of the names
\* 1..MaxShaders, each compiled successfully or not
HarnessShader(name, ok) ==
    [type |-> IF name % 2 = 1 THEN "GL_VERTEX_SHADER" ELSE "GL_FRAGMENT_SHADER",
     source |-> "", compiled |-> ok,
     infoLog |-> IF ok THEN "" ELSE DriverLog, deleteFlag |-> FALSE]

HarnessCompiled == UNION {[S -> BOOLEAN] : S \in SUBSET (1..MaxShaders)}

\* every list of at most MaxList names, repeated, unknown and 0 included
HarnessLists == UNION {[1..n -> 0..MaxShaders] : n \in 0..MaxList}

\* a call create_shader_program(shaderList) in a context holding the shaders
InitLink ==
    /\ variant = "main"
    /\ fileOpens = [f \in Filenames |-> TRUE]
    /\ driverCompiles = [t \in ShaderTypes |-> TRUE]
    /\ driverLinks \in BOOLEAN
    /\ pc = "csp_glCreateProgram"
    /\ stack = <<>>
    /\ window = "open"
    /\ \E c \in HarnessCompiled :
           /\ shaderObj = [s \in DOMAIN c |-> HarnessShader(s, c[s])]
           /\ deleteCalls = [s \in DOMAIN c |-> 0]
    /\ shaderList \in HarnessLists
    /\ nextName = MaxShaders + 1
    /\ InitContext

NextLink ==
    \/ csp_glCreateProgram
    \/ csp_glAttachShader
    \/ csp_glLinkProgram
    \/ csp_status
    \/ csp_glDetachShader
    \/ csp_return

SpecLink == InitLink /\ [][NextLink]_vars

\* --------------------------------------------------------- control points

\* pc values inside render_scene (initialize_vertex_buffer included)
RenderScenePcs ==
    {RenderSceneBody(v)[i] : v \in Variants, i \in 1..10}
        \cup {RenderSceneBody("part_001")[i] : i \in 11..12}
        \cup {"ivb_glGenBuffers", "ivb_glBindBuffer", "ivb_glBufferData",
              "ivb_glBindBuffer_0", "ivb_return"}

\* pc values at or before the return of initialize_main_shaders
BuildPcs ==
    {"main_glfwInit", "main_glfwCreateWindow", "exit_failure", "ims_vertex",
     "ims_fragment", "ims_link", "ims_delete", "cs_glCreateShader",
     "cs_glShaderSource", "cs_glCompileShader", "cs_status", "cs_return",
     "csp_glCreateProgram", "csp_attach", "csp_status", "csp_detach"}

\* initialize_main_shaders has returned to main
ImsReturned == pc \notin BuildPcs /\ pc # "done"

\* render_scene has just returned to the main loop
RenderSceneReturned == pc = "main_glfwSwapBuffers"

\* kinds of diagnostics std::cerr has received
Reported == {cerr[i].kind : i \in 1..Len(cerr)}

\* --------------------------------------------------- what a draw call reads

Min(S) == CHOOSE x \in S : \A y \in S : x <= y

\* bytes of one vertex of a 4-component float attribute
VertexBytes(ptr) == ptr.size * 4

\* number of vertices in the position block of the buffer draw d sources
\* attribute 0 from: the block runs from attribute 0's offset to the first
\* other enabled attribute's offset, or to the end of the data store
PositionBlockVertices(d) ==
    LET pos == d.pointers[0]
        later == {d.pointers[i].offset : i \in d.enabled \ {0}}
        end == IF later = {} THEN bufferObj[pos.buffer].size ELSE Min(later)
    IN (end - pos.offset) \div VertexBytes(pos)

\* primitive assembly of glDrawArrays(mode, first, count): the vertex
\* indices of each triangle, in order
Assemble(d) ==
    CASE d.mode = "GL_TRIANGLE_FAN" ->
           [k \in 1..(d.count - 2) |-> <<d.first, d.first + k, d.first + k + 1>>]
      [] d.mode = "GL_TRIANGLES" ->
           [k \in 1..(d.count \div 3) |->
               <<d.first + 3 * (k - 1), d.first + 3 * (k - 1) + 1,
                 d.first + 3 * (k - 1) + 2>>]

\* the vertex indices draw d pulls from the enabled attribute arrays
Consumed(d) == d.first .. (d.first + d.count - 1)

\* ------------------------------------------------------------------ claims

\* C1: when render_scene returns, no vertex attribute index is enabled and
\* no program is active, in every variant and after any number of frames.
C1_RenderLeavesNothingEnabled ==
    RenderSceneReturned => attribEnabled = {} /\ currentProgram = 0

\* C2: if a compile or the link reports failure, initialization is aborted:
\* render_scene is never called after a reported build failure.
C2_FailFastStartup ==
    (Reported \cap {"Compile failure", "Linker failure"} # {})
        => /\ pc \notin RenderScenePcs
           /\ frames = 0

\* C3: a source whose compilation fails gives status failure with a
\* non-empty log, and the caller of initialize_main_shaders never goes on to
\* glUseProgram the handle it got from that build.
C3_FailedCompileNeverActivated ==
    /\ (pc = "cs_status" /\ ~driverCompiles[eShaderType])
           => /\ ~shaderObj[shader].compiled
              /\ shaderObj[shader].infoLog # ""
    /\ ("Compile failure" \in Reported /\ ImsReturned)
           => \A i \in 1..Len(trace) :
                  ~(trace[i][1] = "glUseProgram" /\ trace[i][2] = mainShader)

\* C4: when create_shader_program returns, nothing is attached to the
\* program it returns, whatever the list and whatever the link outcome.
C4_LinkDetachesEverything ==
    pc = "done" =>
        /\ ims_program = program
        /\ program \in DOMAIN programObj
        /\ programObj[program].attached = {}
        /\ AttachedAnywhere(programObj) = {}

\* C4 witness: the call has returned for a list that repeats a shader whose
\* compile failed, next to a compiled one, and the link failed.
C4_Witness ==
    /\ pc = "done"
    /\ Len(shaderList) = 3
    /\ shaderList[1] = shaderList[3]
    /\ shaderList[1] \in DOMAIN shaderObj
    /\ ~shaderObj[shaderList[1]].compiled
    /\ shaderList[2] \in DOMAIN shaderObj
    /\ shaderObj[shaderList[2]].compiled
    /\ ~programObj[program].linked

\* C5: when initialize_main_shaders has returned, every shader object it
\* created is gone, and glDeleteShader was called exactly once on each.
C5_BuildDeletesItsShaders ==
    ImsReturned =>
        /\ Len(shaderList) = 2
        /\ shaderList[1] # shaderList[2]
        /\ DOMAIN deleteCalls = {shaderList[1], shaderList[2]}
        /\ \A s \in DOMAIN deleteCalls : deleteCalls[s] = 1 /\ s \notin DOMAIN shaderObj
        /\ DOMAIN shaderObj = {}

\* C5 witness: the build has returned after a failed compile and failed link.
C5_Witness ==
    /\ pc = "main_while"
    /\ frames = 0
    /\ {"Compile failure", "Linker failure"} \subseteq Reported
    /\ DOMAIN shaderObj = {}

\* C6 as stated: whenever both sources compile, initialize_main_shaders
\* returns a non-null handle of a successfully linked program.
C6_CompiledPairAlwaysLinks ==
    (ImsReturned /\ \A t \in ShaderTypes : driverCompiles[t])
        => /\ mainShader # 0
           /\ mainShader \in DOMAIN programObj
           /\ programObj[mainShader].linked

\* C6 amended: when both sources compile and the driver's linker accepts
\* the pair, initialize_main_shaders returns a non-null handle of a linked
\* program, and it stays linked after the shaders are detached and deleted
\* and through every later frame; when both compile, a non-null handle of
\* an existing program is returned and its link status is the linker's.
C6_AcceptedPairLinks ==
    (ImsReturned /\ \A t \in ShaderTypes : driverCompiles[t])
        => /\ mainShader # 0
           /\ mainShader \in DOMAIN programObj
           /\ programObj[mainShader].linked = driverLinks
           /\ programObj[mainShader].attached = {}
           /\ DOMAIN shaderObj = {}

\* C6 witness: a linked program in use in a later frame, its shaders gone.
C6_Witness ==
    /\ RenderSceneReturned
    /\ frames = 2
    /\ \A t \in ShaderTypes : driverCompiles[t]
    /\ driverLinks
    /\ programObj[mainShader].linked
    /\ DOMAIN shaderObj = {}

\* C7: every glDrawArrays call passes first = 0 and a count equal to the
\* number of 4-component vertices in the position block of the buffer the
\* draw reads (5 in the fan builds, 3 in the two-attribute build).
C7_DrawCountMatchesPositions ==
    \A k \in 1..Len(draws) :
        /\ draws[k].first = 0
        /\ 0 \in draws[k].enabled
        /\ draws[k].pointers[0].buffer = positionBufferObject
        /\ draws[k].pointers[0].buffer \in DOMAIN bufferObj
        /\ draws[k].count = PositionBlockVertices(draws[k])
        /\ draws[k].count = IF variant = "part_001" THEN 3 ELSE 5

\* C7 witness: the two-attribute build has drawn.
C7_Witness ==
    /\ variant = "part_001"
    /\ Len(draws) = 1
    /\ draws[1].enabled = {0, 1}
    /\ PositionBlockVertices(draws[1]) = 3

\* C8: when render_scene returns, GL_ARRAY_BUFFER is bound to 0 again.
C8_RenderRestoresArrayBuffer ==
    RenderSceneReturned => arrayBuffer = 0

\* C9: in the fan builds a render_scene call issues exactly one draw, in
\* triangle-fan mode, reading vertices 0..4 of the position data, which
\* assemble into the triangles (0,1,2), (0,2,3), (0,3,4).
C9_FanDrawsThreeTriangles ==
    (RenderSceneReturned /\ variant # "part_001") =>
        /\ Len(draws) = 1
        /\ draws[1].mode = "GL_TRIANGLE_FAN"
        /\ Consumed(draws[1]) = 0..4
        /\ 0 \in draws[1].enabled
        /\ bufferObj[draws[1].pointers[0].buffer].data = vertexPositions
        /\ Len(Assemble(draws[1])) = draws[1].count - 2
        /\ Assemble(draws[1]) = << <<0, 1, 2>>, <<0, 2, 3>>, <<0, 3, 4>> >>

\* C9 witness: the third frame of a fan build has been drawn.
C9_Witness ==
    /\ RenderSceneReturned
    /\ variant = "main"
    /\ frames = 3
    /\ Len(Assemble(draws[1])) = 3

\* C10: one program object is created per run; once built it is never
\* deleted or rebuilt, and every render_scene call receives its handle.
C10_OneProgramPerRun ==
    /\ Cardinality(DOMAIN programObj) <= 1
    /\ nextName - 1 <= 3
    /\ ImsReturned =>
           /\ DOMAIN programObj = {mainShader}
           /\ nextName - 1 - Cardinality(DOMAIN deleteCalls) = 1
    /\ pc \in RenderScenePcs => shaderProgram = mainShader

\* C10 witness: the third frame is being rendered with the one program.
C10_Witness ==
    /\ pc = "rs_glDrawArrays"
    /\ frames = 2
    /\ shaderProgram = mainShader
    /\ DOMAIN programObj = {mainShader}

\* C11: the loop calls render_scene once per pass while the should-close
\* flag is false; once the flag is true (close request, or Escape pressed,
\* both delivered by glfwPollEvents) no render_scene call follows, the loop
\* exits and the window is destroyed; the flag is never reset.
C11_LoopRunsUntilClose ==
    /\ [](/\ pc = "main_while" => frames = iterations
          /\ pc \in RenderScenePcs => frames = iterations /\ ~shouldClose
          /\ pc \in {"main_glfwSwapBuffers", "main_glfwPollEvents"}
                 => frames = iterations + 1 /\ ~shouldClose
          /\ pc \in {"main_cleanup", "exit_success"}
                 => shouldClose /\ frames = iterations
          /\ pc = "exit_success" => window = "destroyed"
          /\ shouldClose => pc \in {"main_while", "main_cleanup", "exit_success"})
    /\ [][(shouldClose => shouldClose') /\ (shouldClose => frames' = frames)]_vars
    /\ (shouldClose ~> window = "destroyed")

\* C11 witness: the run has ended after two passes, the window destroyed.
C11_Witness ==
    /\ pc = "exit_success"
    /\ window = "destroyed"
    /\ shouldClose
    /\ frames = 2
    /\ iterations = 2

\* the file part_001 reads the source of a stage from
ShaderFile(type) ==
    IF type = "GL_VERTEX_SHADER" THEN VertexShaderFilename
    ELSE FragmentShaderFilename

\* the GL calls of one initialize_main_shaders call, in statement order:
\* create_shader twice (names 1 and 2), create_shader_program (name 3),
\* then the for_each of glDeleteShader
ExpectedBuildCalls ==
    << <<"glCreateShader", 1, 0>>, <<"glShaderSource", 1, 0>>,
       <<"glCompileShader", 1, 0>>,
       <<"glCreateShader", 2, 0>>, <<"glShaderSource", 2, 0>>,
       <<"glCompileShader", 2, 0>>,
       <<"glCreateProgram", 3, 0>>,
       <<"glAttachShader", 3, 1>>, <<"glAttachShader", 3, 2>>,
       <<"glLinkProgram", 3, 0>>,
       <<"glDetachShader", 3, 1>>, <<"glDetachShader", 3, 2>>,
       <<"glDeleteShader", 1, 0>>, <<"glDeleteShader", 2, 0>> >>

\* pc values inside create_shader
CreateShaderPcs ==
    {"cs_glCreateShader", "cs_glShaderSource", "cs_glCompileShader",
     "cs_status", "cs_return"}

\* the files load_shader_from_file has reported as not opened
CouldNotOpen ==
    {cerr[i].what : i \in {j \in 1..Len(cerr) : cerr[j].kind = "Could not open"}}

\* C12: a shader file that cannot be opened gives the empty string and a
\* warning; the empty text is still handed to create_shader and set as the
\* shader's source, and the build issues the same GL calls as any other:
\* both shaders attached, one link, both detached, both deleted.
C12_MissingFileStillBuilds ==
    variant = "part_001" =>
        /\ (pc \in CreateShaderPcs /\ ~fileOpens[ShaderFile(eShaderType)])
               => /\ strShaderFile = ""
                  /\ ShaderFile(eShaderType) \in CouldNotOpen
        /\ (pc \in CreateShaderPcs /\ fileOpens[ShaderFile(eShaderType)])
               => /\ strShaderFile = FileContents(ShaderFile(eShaderType))
                  /\ ShaderFile(eShaderType) \notin CouldNotOpen
        /\ pc \in {"cs_glCompileShader", "cs_status", "cs_return"}
               => shaderObj[shader].source = strShaderFile
        /\ (pc = "main_while" /\ frames = 0)
               => /\ trace = ExpectedBuildCalls
                  /\ CouldNotOpen = {f \in Filenames : ~fileOpens[f]}
                  /\ DOMAIN shaderObj = {}
                  /\ mainShader \in DOMAIN programObj
                  /\ programObj[mainShader].attached = {}

\* C12 witness: the build has finished with neither file opened.
C12_Witness ==
    /\ variant = "part_001"
    /\ pc = "main_while"
    /\ frames = 0
    /\ \A f \in Filenames : ~fileOpens[f]
    /\ CouldNotOpen = Filenames
    /\ Len(trace) = 14

\* C13: on compile failure create_shader still returns the non-null handle
\* of the shader it created, on link failure create_shader_program still
\* returns the handle of the program it created; the failure branches only
\* write a diagnostic (stage kind and driver log for a compile) and change
\* neither the handle nor what follows: the detach loop still runs.
C13_FailureBranchOnlyReports ==
    /\ [](/\ pc = "cs_return" =>
                /\ shader # 0
                /\ shader \in DOMAIN shaderObj
                /\ ~shaderObj[shader].compiled =>
                       cerr[Len(cerr)] = [kind |-> "Compile failure",
                                          what |-> IF eShaderType = "GL_VERTEX_SHADER"
                                                   THEN "vertex" ELSE "fragment",
                                          log |-> DriverLog]
          /\ pc \in {"ims_fragment", "ims_link"} =>
                /\ shaderList[Len(shaderList)] = shader
                /\ shader # 0
          /\ pc = "ims_delete" =>
                /\ ims_program = program
                /\ program # 0
                /\ program \in DOMAIN programObj
                /\ programObj[program].attached = {}
                /\ ~programObj[program].linked => "Linker failure" \in Reported
                /\ SubSeq(trace, 11, 12) = << <<"glDetachShader", program, shaderList[1]>>,
                                              <<"glDetachShader", program, shaderList[2]>> >>)
    /\ [][/\ pc = "cs_status" =>
                /\ pc' = "cs_return"
                /\ shader' = shader
                /\ gl' = gl
                /\ shaderList' = shaderList
                /\ stack' = stack
          /\ pc = "csp_status" =>
                /\ pc' = "csp_detach"
                /\ iLoop' = 1
                /\ program' = program
                /\ gl' = gl
                /\ shaderList' = shaderList]_vars

\* C13 witness: create_shader_program has returned after a failed compile
\* and a failed link, the program handle in hand and nothing attached.
C13_Witness ==
    /\ pc = "ims_delete"
    /\ iLoop = 1
    /\ {"Compile failure", "Linker failure"} \subseteq Reported
    /\ ims_program # 0
    /\ ~programObj[ims_program].linked
    /\ programObj[ims_program].attached = {}

\* positions of the calls of op in the call record
Calls(op) == {i \in 1..Len(trace) : trace[i][1] = op}

\* C14: each frame runs Clear, Activate program, Bind vertex data, Draw,
\* Restore in that order; the clear is the first GL call of render_scene,
\* the draw happens while the program passed to render_scene is the active
\* program and attribute 0 is enabled and sourced from the bound buffer,
\* and the restore comes last.
C14_FrameOrder ==
    /\ (pc \in RenderScenePcs /\ trace # <<>>) => trace[1][1] = "glClearColor"
    /\ \A k \in 1..Len(draws) :
           /\ draws[k].program = shaderProgram
           /\ 0 \in draws[k].enabled
           /\ draws[k].binding # 0
           /\ draws[k].pointers[0].buffer = draws[k].binding
    /\ RenderSceneReturned =>
           \E c \in Calls("glClear"), d \in Calls("glDrawArrays") :
               /\ c < d
               /\ \E u \in c..d : trace[u] = <<"glUseProgram", shaderProgram, 0>>
               /\ \E b \in c..d : trace[b] = <<"glBindBuffer", positionBufferObject, 0>>
               /\ \A i \in (d + 1)..Len(trace) :
                      trace[i][1] \in {"glDisableVertexAttribArray", "glUseProgram"}
               /\ trace[Len(trace)] = <<"glUseProgram", 0, 0>>

\* the rows of the data store that draw d reads through attribute i
AttribRows(d, i) ==
    LET ptr == d.pointers[i]
        firstRow == ptr.offset \div VertexBytes(ptr)
    IN SubSeq(bufferObj[ptr.buffer].data, firstRow + 1, firstRow + d.count)

\* C15: the declared attribute layout matches the uploaded buffer: index 0
\* reads 4 floats per vertex from byte 0, index 1 (two-attribute build)
\* reads 4 floats per vertex from the byte size of the position block (48);
\* every enabled attribute's range offset + count * 16 lies within the size
\* given to glBufferData, and the position and color ranges do not overlap.
C15_LayoutMatchesUpload ==
    \A k \in 1..Len(draws) :
        LET d == draws[k]
            size == bufferObj[d.binding].size
        IN /\ d.binding \in DOMAIN bufferObj
           /\ size = SizeofRows(VertexArray(variant))
           /\ d.enabled = IF variant = "part_001" THEN {0, 1} ELSE {0}
           /\ \A i \in d.enabled :
                  /\ d.pointers[i].size = 4
                  /\ d.pointers[i].buffer = d.binding
                  /\ d.pointers[i].offset + d.count * 16 <= size
                  /\ Len(AttribRows(d, i)) = d.count
           /\ d.pointers[0].offset = 0
           /\ 1 \in d.enabled =>
                  /\ d.pointers[1].offset = 48
                  /\ d.pointers[1].offset = d.count * 4 * 4
                  /\ d.pointers[0].offset + d.count * 16 <= d.pointers[1].offset
                  /\ AttribRows(d, 0) = SubSeq(vertexData, 1, 3)
                  /\ AttribRows(d, 1) = SubSeq(vertexData, 4, 6)

\* C15 witness: the two-attribute build has drawn from both blocks.
C15_Witness ==
    /\ variant = "part_001"
    /\ RenderSceneReturned
    /\ Len(draws) = 1
    /\ draws[1].pointers[1].offset = 48
    /\ bufferObj[draws[1].binding].size = 96

\* C16: initialize_vertex_buffer leaves the GL_ARRAY_BUFFER binding as it
\* was before the call: in every frame, when the function returns, the
\* binding equals the binding in effect when it was entered.
C16_UploadRestoresBinding ==
    pc = "ivb_return" => arrayBuffer = bindingBefore

\* buffer names glGenBuffers has handed out so far
GeneratedBuffers == 1..(nextBuffer - 1)

\* state part of C17: outside render_scene the number of buffer objects
\* equals the number of completed frames, and a frame's draw sources from
\* the buffer generated in that frame
C17_CountAndSource ==
    /\ pc \notin RenderScenePcs =>
           /\ Cardinality(DOMAIN bufferObj) = frames
           /\ Cardinality(GeneratedBuffers) = frames
    /\ pc \in RenderScenePcs =>
           Cardinality(GeneratedBuffers) \in {frames, frames + 1}
    /\ \A k \in 1..Len(draws) :
           /\ draws[k].pointers[0].buffer = bufferObject
           /\ draws[k].binding = bufferObject
           /\ bufferObject = Cardinality(GeneratedBuffers)
           /\ bufferObject = IF pc \in RenderScenePcs THEN frames + 1 ELSE frames

\* step part of C17: no step removes a buffer object, and each call of
\* glGenBuffers hands out a name never handed out before
C17_NoDeleteNoReuse ==
    /\ DOMAIN bufferObj \subseteq DOMAIN bufferObj'
    /\ GeneratedBuffers \subseteq GeneratedBuffers'
    /\ bufferObject' # bufferObject => bufferObject' \notin GeneratedBuffers

\* C17: every call of render_scene creates exactly one new vertex buffer
\* object and none is ever deleted or reused: after n completed frames
\* exactly n buffer objects are live, and the draw of frame k sources from
\* the buffer created in frame k.
C17_OneFreshBufferPerFrame ==
    [](C17_CountAndSource) /\ [][C17_NoDeleteNoReuse]_vars

\* C17 witness: two frames have completed, two buffers are live, and the
\* second frame's draw read the second buffer.
C17_Witness ==
    /\ RenderSceneReturned
    /\ frames = 2
    /\ Cardinality(DOMAIN bufferObj) = 2
    /\ Len(draws) = 1
    /\ draws[1].pointers[0].buffer = 2

\* trace still holds the calls of the pipeline build (main's loop clears it
\* when the first frame starts)
BuildTrace == frames = 0 /\ pc \notin RenderScenePcs

\* positions in trace of the calls of op on shader s (the shader is the
\* second argument of glAttachShader and glDetachShader, the first otherwise)
ShaderCalls(op, s) ==
    {i \in Calls(op) :
        IF op \in {"glAttachShader", "glDetachShader"}
        THEN trace[i][3] = s
        ELSE trace[i][2] = s}

\* C18: during pipeline build each shader sees create, compile, attach,
\* link, detach, delete in that order; every glDeleteShader comes after the
\* shader's detach, so the shader is attached to no program when deleted
\* and is freed at once, never flagged for deferred deletion; link is
\* requested exactly once, after all attaches and before any detach.
C18_BuildOrder ==
    /\ \A s \in DOMAIN shaderObj : ~shaderObj[s].deleteFlag
    /\ pc = "ims_delete" => AttachedAnywhere(programObj) = {}
    /\ BuildTrace =>
           /\ Cardinality(Calls("glLinkProgram")) <= 1
           /\ \A l \in Calls("glLinkProgram") :
                  /\ \A a \in Calls("glAttachShader") : a < l
                  /\ \A d \in Calls("glDetachShader") : l < d
                  /\ Cardinality(Calls("glAttachShader")) = Len(shaderList)
           /\ Calls("glDetachShader") # {} => Calls("glLinkProgram") # {}
           /\ \A i \in Calls("glDeleteShader") :
                  LET s == trace[i][2]
                  IN \E c \in ShaderCalls("glCreateShader", s),
                        m \in ShaderCalls("glCompileShader", s),
                        a \in ShaderCalls("glAttachShader", s),
                        l \in Calls("glLinkProgram"),
                        d \in ShaderCalls("glDetachShader", s) :
                         /\ c < m /\ m < a /\ a < l /\ l < d /\ d < i
                         /\ s \notin DOMAIN shaderObj
    /\ (BuildTrace /\ ImsReturned) =>
           /\ Cardinality(Calls("glLinkProgram")) = 1
           /\ Cardinality(Calls("glDeleteShader")) = 2
           /\ trace = ExpectedBuildCalls

\* C18 witness: the build has returned with both shaders deleted, each after
\* its detach, and the link in between the attaches and the detaches.
C18_Witness ==
    /\ BuildTrace
    /\ pc = "main_while"
    /\ Calls("glLinkProgram") = {10}
    /\ Calls("glDetachShader") = {11, 12}
    /\ Calls("glDeleteShader") = {13, 14}
    /\ DOMAIN shaderObj = {}

=============================================================================
